---- MODULE Spec2Model ----
(***************************************************************************)
(* Model of addons/io_scene_gltf2/blender/exp/gltf2_blender_image.py:      *)
(* the ExportImage fill description, its builder methods, the happy-path   *)
(* classifier and the two encoders (reuse of an existing Blender image,    *)
(* and synthesis through a temporary compositor scene).                    *)
(*                                                                         *)
(* Blender objects the module only borrows are modelled by what the code   *)
(* reads and writes of them: bpy.types.Image (name, size, channels,        *)
(* colorspace_settings.name, is_dirty, file_format, filepath_raw, save()), *)
(* the files behind filepath_raw, and the temporary scene's render         *)
(* settings.  Image names are unique only per library in Blender, so two   *)
(* images of bpy.data.images may carry the same name.                      *)
(***************************************************************************)
EXTENDS Integers, Sequences, FiniteSets, TLC

VARIABLES
    images,     \* bpy.data.images: image id -> the attributes the code uses
    disk,       \* state of the file behind each image's original filepath_raw
    fills,      \* ExportImage.fills, in dict insertion order
    built_from, \* the image from_blender_image built it from, "-" once edited
    mime_type,  \* ExportImage.mime_type, the attribute encode() assigns
    pc,         \* "building": no encode() yet on this ExportImage; "encoded"
    last,       \* what the encode() call on this ExportImage did and returned
    threads     \* overlapping encode() calls on one ExportImage (SpecThreads)

vars == <<images, disk, fills, built_from, mime_type, pc, last, threads>>

----------------------------------------------------------------------------
(* Bounds and enumerated inputs *)

MaxFills == 2

R == 0
G == 1
B == 2
A == 3

Channel == {R, G, B, A}

Images == {"imgA", "imgB"}

Names == {"Im1", "Im2"}

Sizes == {<<4, 4>>, <<8, 8>>}

Colorspaces == {"sRGB", "Non-Color"}

FileFormats == {"PNG", "JPEG"}

ChannelCounts == {0, 3, 4}

DiskStates == {"file", "unreadable", "missing"}

NoMime == "None"

Mimes == {"image/jpeg", "image/png", "image/webp", NoMime}

Threads == {"t1", "t2"}

\* The source channels tried for a destination channel: the matching one and
\* one that does not match.
SrcChans(dst_chan) == {dst_chan, (dst_chan + 1) % 4}

OrigPath(image) == IF image = "imgA" THEN "//imgA" ELSE "//imgB"

TmpFile == "tmpdir/img"

----------------------------------------------------------------------------
(* Fill descriptions *)

FillImage(image, src_chan) ==
    [kind |-> "FillImage", image |-> image, src_chan |-> src_chan]

FillWhite == [kind |-> "FillWhite", image |-> "-", src_chan |-> -1]

Entry(dst_chan, fill) == [dst_chan |-> dst_chan, fill |-> fill]

Keys(fs) == {fs[k].dst_chan : k \in 1..Len(fs)}

Values(fs) == {fs[k].fill : k \in 1..Len(fs)}

\* self.fills[dst_chan] = fill: a present key keeps its place in the dict,
\* a new key goes last.
SetFill(fs, dst_chan, fill) ==
    IF dst_chan \in Keys(fs)
    THEN LET k == CHOOSE j \in 1..Len(fs) : fs[j].dst_chan = dst_chan
         IN  SubSeq(fs, 1, k - 1) \o <<Entry(dst_chan, fill)>>
                \o SubSeq(fs, k + 1, Len(fs))
    ELSE Append(fs, Entry(dst_chan, fill))

is_filled(fs, chan) == chan \in Keys(fs)

Get(fs, chan) == (CHOOSE k \in 1..Len(fs) : fs[k].dst_chan = chan)

RECURSIVE FromImageFills(_, _, _)
\* the loop of from_blender_image: chan = 0 .. image.channels - 1
FromImageFills(image, chan, channels) ==
    IF chan >= channels THEN <<>>
    ELSE <<Entry(chan, FillImage(image, chan))>>
            \o FromImageFills(image, chan + 1, channels)

fills_from_image(imgs, image) == FromImageFills(image, 0, imgs[image].channels)

----------------------------------------------------------------------------
(* Path classifier *)

\* (a classifier that also accepts the empty mapping)
on_happy_path_vacuous(fs, imgs) ==
    /\ \A f \in Values(fs) : f.kind = "FillImage"
    /\ \A k \in 1..Len(fs) : fs[k].dst_chan = fs[k].fill.src_chan
    /\ Cardinality({imgs[f.image].name : f \in Values(fs)}) <= 1

on_happy_path(fs, imgs) ==
    /\ \A f \in Values(fs) : f.kind = "FillImage"
    /\ \A k \in 1..Len(fs) : fs[k].dst_chan = fs[k].fill.src_chan
    /\ Cardinality({imgs[f.image].name : f \in Values(fs)}) = 1

----------------------------------------------------------------------------
(* Results of an encode() call *)

NoBytes == [origin |-> "none", source |-> "-", file_format |-> "-", alpha |-> FALSE]

\* comb_rgba.inputs[c].default_value = 1.0, with nothing linked to it
Default1 == [image |-> "1.0", src_chan |-> -1]

NoRequest ==
    [executed |-> FALSE, width |-> 0, height |-> 0, file_format |-> "-",
     color_mode |-> "-", display_device |-> "-",
     inputs |-> [c \in Channel |-> Default1]]

Returned(path, branch, bytes, request, imgs) ==
    [path |-> path, branch |-> branch, outcome |-> "returned", error |-> "-",
     bytes |-> bytes, request |-> request, images |-> imgs]

Raised(path, branch, error, request, imgs) ==
    [path |-> path, branch |-> branch, outcome |-> "raised", error |-> error,
     bytes |-> NoBytes, request |-> request, images |-> imgs]

----------------------------------------------------------------------------
(* Format resolution: {"image/jpeg": "JPEG", "image/png": "PNG"}.get(m, "PNG") *)

ResolveFormat(mime) ==
    IF mime = "image/jpeg" THEN "JPEG"
    ELSE IF mime = "image/png" THEN "PNG"
    ELSE "PNG"

\* Python truth value of the mime_type argument: None and "" are false.
Truthy(mime) == mime # NoMime /\ mime # ""

\* Whether an image file of this format, written from this image, has alpha.
StoredAlpha(im, file_format) == im.channels = 4 /\ file_format # "JPEG"

----------------------------------------------------------------------------
(* Happy path: reuse of an existing Blender image *)

isfile(dsk, path) == path \in DOMAIN dsk /\ dsk[path] # "missing"

\* Whether image.save() succeeds: an image without pixel data (channels = 0)
\* cannot be saved, and saving may fail for reasons outside the module.
save_succeeds(im, saveOk) == saveOk /\ im.channels > 0

\* image.save(): writes the image to filepath_raw in file_format and, when it
\* succeeds, leaves the image marked as saved.
image_save(im, saveOk) ==
    IF save_succeeds(im, saveOk) THEN [im EXCEPT !.is_dirty = FALSE] ELSE im

\* the finally block of __encode_from_image
restore_image(im, orig_filepath_raw, orig_file_format) ==
    [im EXCEPT !.filepath_raw = orig_filepath_raw,
               !.file_format = orig_file_format]

\* the test guarding "skip saving them and just read them back"
can_reuse_file(dsk, im, file_format) ==
    /\ file_format = im.file_format
    /\ ~im.is_dirty
    /\ isfile(dsk, im.filepath_raw)

encode_from_image(imgs, dsk, image, mime, saveOk) ==
    LET file_format == ResolveFormat(mime)
        im == imgs[image]
    IN  IF can_reuse_file(dsk, im, file_format)
        THEN IF im.filepath_raw \in DOMAIN dsk /\ dsk[im.filepath_raw] = "file"
             THEN Returned("happy", "verbatim",
                           [origin |-> "file", source |-> im.filepath_raw,
                            file_format |-> im.file_format,
                            alpha |-> StoredAlpha(im, im.file_format)],
                           NoRequest, imgs)
             ELSE Raised("happy", "verbatim", "OSError", NoRequest, imgs)
        ELSE LET orig_filepath_raw == im.filepath_raw
                 orig_file_format == im.file_format
                 im1 == [im EXCEPT !.filepath_raw = TmpFile,
                                   !.file_format = file_format]
                 im2 == image_save(im1, saveOk)
                 im3 == restore_image(im2, orig_filepath_raw, orig_file_format)
                 after == [imgs EXCEPT ![image] = im3]
             IN  IF save_succeeds(im1, saveOk)
                 THEN Returned("happy", "resave",
                               [origin |-> "saved", source |-> image,
                                file_format |-> im1.file_format,
                                alpha |-> StoredAlpha(im1, im1.file_format)],
                               NoRequest, after)
                 ELSE Raised("happy", "resave", "RuntimeError", NoRequest, after)


\* for fill in self.fills.values(): return self.__encode_from_image(fill.image)
\* (with no fill the loop body never runs and the method returns None)
encode_happy(fs, imgs, dsk, mime, saveOk) ==
    IF Len(fs) = 0
    THEN Returned("happy", "none", NoBytes, NoRequest, imgs)
    ELSE encode_from_image(imgs, dsk, fs[1].fill.image, mime, saveOk)

----------------------------------------------------------------------------
(* Unhappy path: synthesis through a temporary compositor scene *)

NoSize == <<>>

\* bpy.data.images[img_name]: the possible resolutions of names to images
Lookups(imgs) ==
    {f \in [{imgs[i].name : i \in Images} -> Images] :
        \A n \in DOMAIN f : imgs[f[n]].name = n}

\* (settings that never ask for alpha)
render_settings_always_rgb(scene_fmt, width, height, mime, colorspace, has_alpha, inputs) ==
    [executed |-> TRUE, width |-> width, height |-> height,
     file_format |-> IF Truthy(mime) THEN ResolveFormat(mime) ELSE scene_fmt,
     color_mode |-> "RGB",
     display_device |-> colorspace, inputs |-> inputs]

\* the settings _render_tmp_scene gives the scene before it renders it;
\* scene_fmt is render.image_settings.file_format of the scene as created
render_settings(scene_fmt, width, height, mime, colorspace, has_alpha, inputs) ==
    [executed |-> TRUE, width |-> width, height |-> height,
     file_format |-> IF Truthy(mime) THEN ResolveFormat(mime) ELSE scene_fmt,
     color_mode |-> IF has_alpha THEN "RGBA" ELSE "RGB",
     display_device |-> colorspace, inputs |-> inputs]

\* the file the render writes, read back
rendered_bytes(request) ==
    [origin |-> "render", source |-> "tmp-scene",
     file_format |-> request.file_format,
     alpha |-> request.color_mode = "RGBA" /\ request.file_format # "JPEG"]

\* (a link with source and destination channel exchanged)
link_swapped(inputs, dst_chan, fill) ==
    [inputs EXCEPT ![fill.src_chan] = [image |-> fill.image, src_chan |-> dst_chan]]

\* node_tree.links.new(comb_rgba.inputs[dst_chan], sep_rgba.outputs[fill.src_chan])
link(inputs, dst_chan, fill) ==
    [inputs EXCEPT ![dst_chan] = [image |-> fill.image, src_chan |-> fill.src_chan]]

\* if fill.image.name not in orig_colorspaces: orig_colorspaces[name] = ...
save_colorspace(orig, imgs, image) ==
    IF imgs[image].name \in DOMAIN orig
    THEN orig
    ELSE (imgs[image].name :> imgs[image].colorspace) @@ orig

\* one iteration of "for dst_chan, fill in self.fills.items()"
fill_step(st, e) ==
    IF e.fill.kind # "FillImage" THEN st
    ELSE LET image == e.fill.image
             sz == st.imgs[image].size
         IN  [imgs   |-> [st.imgs EXCEPT ![image].colorspace = "Non-Color"],
              orig   |-> save_colorspace(st.orig, st.imgs, image),
              inputs |-> link(st.inputs, e.dst_chan, e.fill),
              size   |-> IF st.size = NoSize THEN sz ELSE st.size,
              ok     |-> st.size = NoSize \/ st.size = sz]

RECURSIVE fill_loop(_, _, _)
\* the loop; a failed size assertion leaves it at once
fill_loop(fs, k, st) ==
    IF k > Len(fs) \/ ~st.ok THEN st
    ELSE fill_loop(fs, k + 1, fill_step(st, fs[k]))

\* for img_name, colorspace in orig_colorspaces.items():
\*     bpy.data.images[img_name].colorspace_settings.name = colorspace
restore_colorspaces(imgs, orig, byName) ==
    [i \in Images |->
        IF \E n \in DOMAIN orig : byName[n] = i
        THEN [imgs[i] EXCEPT !.colorspace = orig[imgs[i].name]]
        ELSE imgs[i]]

\* if size is None: size = (1, 1)
default_size(size) == IF size = NoSize THEN <<1, 1>> ELSE size

encode_unhappy(fs, imgs, mime, scene_fmt, renderOk, byName) ==
    LET st == fill_loop(fs, 1,
                        [imgs |-> imgs, orig |-> <<>>,
                         inputs |-> [c \in Channel |-> Default1],
                         size |-> NoSize, ok |-> TRUE])
        after == restore_colorspaces(st.imgs, st.orig, byName)
    IN  IF ~st.ok
        THEN Raised("unhappy", "none", "AssertionError", NoRequest, after)
        ELSE LET size == default_size(st.size)
                 request == render_settings(scene_fmt, size[1], size[2], mime,
                                            "None", A \in Keys(fs), st.inputs)
             IN  IF renderOk
                 THEN Returned("unhappy", "render", rendered_bytes(request),
                               request, after)
                 ELSE Raised("unhappy", "render", "RuntimeError", request, after)

----------------------------------------------------------------------------
(* encode(): everything after "self.mime_type = mime_type" *)

encode_body(fs, imgs, dsk, mime, scene_fmt, renderOk, saveOk, byName) ==
    IF on_happy_path(fs, imgs)
    THEN encode_happy(fs, imgs, dsk, mime, saveOk)
    ELSE encode_unhappy(fs, imgs, mime, scene_fmt, renderOk, byName)

----------------------------------------------------------------------------
(* State *)

NoCall ==
    [called |-> FALSE, mime |-> "-", pre |-> <<>>, path |-> "-", branch |-> "-",
     outcome |-> "-", error |-> "-", bytes |-> NoBytes, request |-> NoRequest]

CallRecord(mime, pre, res) ==
    [called |-> TRUE, mime |-> mime, pre |-> pre, path |-> res.path,
     branch |-> res.branch, outcome |-> res.outcome, error |-> res.error,
     bytes |-> res.bytes, request |-> res.request]

Idle == [pc |-> "idle", arg |-> "-", outcome |-> "-", bytes |-> NoBytes]

\* An image whose pixel data could not be loaded reports 0 channels and
\* size 0x0.
ImageRecord(nm, sz, ch, cs, dt, ff, image) ==
    [name |-> nm, size |-> IF ch = 0 THEN <<0, 0>> ELSE sz,
     channels |-> ch, colorspace |-> cs,
     is_dirty |-> dt, file_format |-> ff, filepath_raw |-> OrigPath(image)]

\* A saved four-channel PNG whose file is on disk.
PlainFile(ch, dt, ff, dk) == ch = 4 /\ ~dt /\ ff = "PNG" /\ dk = "file"

\* An image without pixel data has no unsaved edits and no loadable file.
\* The images differ either in what the compositor path reads of them (name,
\* size, colorspace) or, for imgA, in what the reuse path reads (channels,
\* is_dirty, file_format, the file on disk).
InitImages(compositor_side, file_side) ==
    \E nm \in [Images -> Names], sz \in [Images -> Sizes],
       cs \in [Images -> Colorspaces], ch \in [Images -> ChannelCounts],
       dt \in [Images -> BOOLEAN], ff \in [Images -> FileFormats],
       dk \in [Images -> DiskStates] :
        /\ \/ /\ compositor_side
              /\ \A i \in Images : PlainFile(ch[i], dt[i], ff[i], dk[i])
           \/ /\ file_side
              /\ PlainFile(ch["imgB"], dt["imgB"], ff["imgB"], dk["imgB"])
              /\ nm["imgA"] = "Im1" /\ nm["imgB"] = "Im2"
              /\ \A i \in Images : sz[i] = <<4, 4>> /\ cs[i] = "sRGB"
        /\ \A i \in Images : ch[i] = 0 => ~dt[i] /\ dk[i] # "file"
        /\ images = [i \in Images |->
                        ImageRecord(nm[i], sz[i], ch[i], cs[i], dt[i], ff[i], i)]
        /\ disk = [p \in {OrigPath(i) : i \in Images} |->
                        dk[CHOOSE i \in Images : OrigPath(i) = p]]

InitObject ==
    /\ fills = <<>>
    /\ built_from = "-"
    /\ mime_type = "unset"
    /\ pc = "building"
    /\ last = NoCall
    /\ threads = [t \in Threads |-> Idle]

Init == InitImages(TRUE, TRUE) /\ InitObject

----------------------------------------------------------------------------
(* Operations *)

AllIdle == \A t \in Threads : threads[t].pc = "idle"

\* ExportImage(): __init__
ExportImage ==
    /\ fills' = <<>>
    /\ built_from' = "-"
    /\ mime_type' = "unset"
    /\ pc' = "building"
    /\ last' = NoCall
    /\ threads' = [t \in Threads |-> Idle]
    /\ UNCHANGED <<images, disk>>

\* ExportImage.from_blender_image(image)
from_blender_image(image) ==
    /\ fills' = fills_from_image(images, image)
    /\ built_from' = image
    /\ mime_type' = "unset"
    /\ pc' = "building"
    /\ last' = NoCall
    /\ threads' = [t \in Threads |-> Idle]
    /\ UNCHANGED <<images, disk>>

\* An ExportImage is described and then encoded once.  The methods that
\* describe it are explored on descriptions of at most MaxFills channels, new
\* channels in ascending order (as from_blender_image does); a filled
\* channel may be filled again.
MayFill(dst_chan) ==
    /\ pc = "building"
    /\ AllIdle
    /\ Len(fills) <= MaxFills
    /\ \/ dst_chan \in Keys(fills)
       \/ /\ Len(fills) < MaxFills
          /\ \A c \in Keys(fills) : c < dst_chan

fill_image(image, dst_chan, src_chan) ==
    /\ MayFill(dst_chan)
    /\ fills' = SetFill(fills, dst_chan, FillImage(image, src_chan))
    /\ built_from' = "-"
    /\ UNCHANGED <<images, disk, mime_type, pc, last, threads>>

fill_white(dst_chan) ==
    /\ MayFill(dst_chan)
    /\ fills' = SetFill(fills, dst_chan, FillWhite)
    /\ built_from' = "-"
    /\ UNCHANGED <<images, disk, mime_type, pc, last, threads>>

\* encode(mime_type), run from its first line to its return or raise
encode(mime, scene_fmt, renderOk, saveOk, byName) ==
    /\ pc = "building"
    /\ AllIdle
    /\ LET res == encode_body(fills, images, disk, mime, scene_fmt, renderOk,
                              saveOk, byName)
       IN  /\ images' = res.images
           /\ last' = CallRecord(mime, images, res)
    /\ mime_type' = mime
    /\ pc' = "encoded"
    /\ UNCHANGED <<disk, fills, built_from, threads>>

\* What the call meets outside the module: the file format of a new scene, a
\* render or an image.save() that fails, the image bpy.data.images gives for
\* a name.  Only what the path taken uses is enumerated.
Environments(fs, imgs) ==
    IF on_happy_path(fs, imgs)
    THEN {[scene_fmt |-> "PNG", renderOk |-> TRUE, saveOk |-> ok,
           byName |-> CHOOSE f \in Lookups(imgs) : TRUE] : ok \in BOOLEAN}
    ELSE {[scene_fmt |-> sf, renderOk |-> ok, saveOk |-> TRUE, byName |-> f] :
            sf \in FileFormats, ok \in BOOLEAN, f \in Lookups(imgs)}

Next ==
    \/ ExportImage
    \/ \E image \in Images : from_blender_image(image)
    \/ \E image \in Images, dst_chan \in Channel :
            \E src_chan \in SrcChans(dst_chan) : fill_image(image, dst_chan, src_chan)
    \/ \E dst_chan \in Channel : fill_white(dst_chan)
    \/ \E mime \in Mimes, env \in Environments(fills, images) :
            encode(mime, env.scene_fmt, env.renderOk, env.saveOk, env.byName)

Spec == Init /\ [][Next]_vars

----------------------------------------------------------------------------
(* Two encode() calls on one ExportImage from two Python threads.  A thread  *)
(* switch can fall between "self.mime_type = mime_type" and the rest of the  *)
(* call, which reads self.mime_type back.                                     *)

\* line 102 of a call: self.mime_type = mime_type
encode_enter(t, mime) ==
    /\ pc = "building"
    /\ threads[t].pc = "idle"
    /\ mime_type' = mime
    /\ threads' = [threads EXCEPT ![t] = [Idle EXCEPT !.pc = "entered", !.arg = mime]]
    /\ UNCHANGED <<images, disk, fills, built_from, pc, last>>

\* the rest of the call, which reads self.mime_type
encode_rest(t, scene_fmt, renderOk, saveOk, byName) ==
    /\ threads[t].pc = "entered"
    /\ LET res == encode_body(fills, images, disk, mime_type, scene_fmt,
                              renderOk, saveOk, byName)
       IN  /\ images' = res.images
           /\ threads' = [threads EXCEPT ![t] =
                            [pc |-> "done", arg |-> threads[t].arg,
                             outcome |-> res.outcome, bytes |-> res.bytes]]
    /\ UNCHANGED <<disk, fills, built_from, mime_type, pc, last>>

InitThreads == InitImages(FALSE, TRUE) /\ InitObject

NextThreads ==
    \/ ExportImage
    \/ \E image \in Images : from_blender_image(image)
    \/ \E t \in Threads, mime \in Mimes : encode_enter(t, mime)
    \/ \E t \in Threads, env \in Environments(fills, images) :
            encode_rest(t, env.scene_fmt, env.renderOk, env.saveOk, env.byName)

SpecThreads == InitThreads /\ [][NextThreads]_vars

----------------------------------------------------------------------------
(* Properties.  In a state with pc = "encoded", fills is the description    *)
(* that was encoded, last.pre the images before the call and images the     *)
(* images after it.                                                          *)

Encoded == pc = "encoded" /\ last.called

ImageFills == {f \in Values(fills) : f.kind = "FillImage"}

AllFillImage == \A f \in Values(fills) : f.kind = "FillImage"

ChannelsMatch ==
    \A k \in 1..Len(fills) :
        fills[k].fill.kind = "FillImage" => fills[k].dst_chan = fills[k].fill.src_chan

ExpectedFormat(mime) == IF mime = "image/jpeg" THEN "JPEG" ELSE "PNG"

\* C2: after an encode call that took the composite path, returned or
\* raised, every image referenced by a FillImage has the colorspace it had
\* immediately before the call.
C2_ColorspaceRestored ==
    Encoded /\ last.path = "unhappy" =>
        \A f \in ImageFills :
            images[f.image].colorspace = last.pre[f.image].colorspace

\* C3: on either path the bytes encode(mime_type) returns are JPEG for
\* "image/jpeg" and PNG for "image/png", any other string or None, whatever
\* file format the temporary scene had when it was created.
C3_FormatFollowsMime ==
    Encoded /\ last.outcome = "returned" =>
        last.bytes.file_format = ExpectedFormat(last.mime)

\* C4 as stated: on either path the encoded output has an alpha channel
\* exactly when the mapping has a fill for Channel.A.
C4_AlphaIffFilled ==
    Encoded /\ last.outcome = "returned" =>
        (last.bytes.alpha <=> A \in Keys(fills))

\* C4 amended: on the composite path the render is requested with color mode
\* RGBA when the mapping has a fill for Channel.A and with RGB otherwise.
C4_ColorModeIffFilled ==
    Encoded /\ last.path = "unhappy" /\ last.request.executed =>
        last.request.color_mode = (IF is_filled(fills, A) THEN "RGBA" ELSE "RGB")

\* C4 witness: a composite render of a mapping that fills Channel.A.
C4_Witness ==
    /\ Encoded
    /\ last.path = "unhappy"
    /\ last.outcome = "returned"
    /\ is_filled(fills, A)
    /\ last.request.color_mode = "RGBA"

\* C5: when the mapping references two images whose sizes differ, encode
\* raises the size assertion's error, returns no bytes and runs no render.
C5_SizeMismatchRaises ==
    Encoded /\ (\E f, g \in ImageFills :
                    last.pre[f.image].size # last.pre[g.image].size) =>
        /\ last.outcome = "raised"
        /\ last.error = "AssertionError"
        /\ last.bytes = NoBytes
        /\ ~last.request.executed

\* C6: on the composite path, input d of the combine node is fed by channel
\* src of an image when fills[d] is FillImage(image, src) and stays at the
\* constant 1.0 when fills[d] is FillWhite or absent; the render size is the
\* common size of the referenced images, or 1x1 when there is no FillImage.
C6_RoutingAndSize ==
    Encoded /\ last.path = "unhappy" /\ last.request.executed =>
        /\ \A d \in Channel :
              IF is_filled(fills, d) /\ fills[Get(fills, d)].fill.kind = "FillImage"
              THEN last.request.inputs[d] =
                      [image |-> fills[Get(fills, d)].fill.image,
                       src_chan |-> fills[Get(fills, d)].fill.src_chan]
              ELSE last.request.inputs[d] = Default1
        /\ IF ImageFills = {}
           THEN last.request.width = 1 /\ last.request.height = 1
           ELSE \A f \in ImageFills :
                    last.pre[f.image].size =
                        <<last.request.width, last.request.height>>

\* C6 witness: a composite render of a mapping that takes a non-matching
\* channel of one image, a channel of another image of the same size, and
\* leaves a channel at the constant.
C6_Witness ==
    /\ Encoded
    /\ last.path = "unhappy"
    /\ last.outcome = "returned"
    /\ \E f, g \in ImageFills : f.image # g.image
    /\ \E k \in 1..Len(fills) :
            /\ fills[k].fill.kind = "FillImage"
            /\ fills[k].dst_chan # fills[k].fill.src_chan
    /\ \E d \in Channel : last.request.inputs[d] = Default1
    /\ last.request.width = 4

\* C7: an ExportImage built by from_blender_image(img) and not edited is
\* encoded on the fast path, whatever img.channels is; and when img's
\* file_format is the resolved format, img is not dirty and its file is
\* there, the bytes returned are the bytes of that file.
C7_FromImageFastPath ==
    Encoded /\ built_from \in Images =>
        /\ last.path = "happy"
        /\ LET im == last.pre[built_from]
           IN  /\ im.file_format = ExpectedFormat(last.mime)
               /\ ~im.is_dirty
               /\ disk[im.filepath_raw] = "file"
               => /\ last.outcome = "returned"
                  /\ last.bytes.origin = "file"
                  /\ last.bytes.source = im.filepath_raw

\* C8: when the fast path saved the image again to a temporary file, whether
\* image.save() worked or failed, the image's file_format and filepath_raw
\* are what they were before the call, and so are its is_dirty flag and its
\* colorspace.
C8_ResaveLeavesImage ==
    Encoded /\ last.branch = "resave" =>
        \A i \in Images :
            /\ images[i].file_format = last.pre[i].file_format
            /\ images[i].filepath_raw = last.pre[i].filepath_raw
            /\ images[i].is_dirty = last.pre[i].is_dirty
            /\ images[i].colorspace = last.pre[i].colorspace

\* C9: on the fast path, when the image's file_format is the resolved
\* format and it is not dirty but its file is missing or cannot be read, the
\* call goes on to save the image again and, unless image.save() itself
\* fails, returns the saved bytes.
C9_UnreadableFallsThrough ==
    Encoded /\ last.path = "happy" /\ fills # <<>> =>
        LET im == last.pre[fills[1].fill.image]
        IN  /\ im.file_format = ExpectedFormat(last.mime)
            /\ ~im.is_dirty
            /\ disk[im.filepath_raw] \in {"missing", "unreadable"}
            => /\ last.branch = "resave"
               /\ last.error # "RuntimeError" =>
                     last.outcome = "returned" /\ last.bytes.origin = "saved"

\* C10: the mime type of an encode call is the call's own, not a field the
\* calls share: however two calls on the same ExportImage overlap, the bytes
\* a call returns are in the format resolved from its own argument.  (A call
\* given no mime type on the composite path is C3's case and is left out.)
C10_MimeIsCallScoped ==
    \A t \in Threads :
        /\ threads[t].pc = "done"
        /\ threads[t].outcome = "returned"
        /\ threads[t].bytes.origin # "render" \/ Truthy(threads[t].arg)
        => threads[t].bytes.file_format = ExpectedFormat(threads[t].arg)

----------------------------------------------------------------------------
(* What does hold of the calls the failing properties above are about *)

NamesUnique == \A i, j \in Images : images[i].name = images[j].name => i = j

\* Colorspaces are restored when no two images share a name.
ColorspaceRestoredIfNamesUnique == NamesUnique => C2_ColorspaceRestored

\* A size mismatch raises when no two images share a name.
SizeMismatchRaisesIfNamesUnique == NamesUnique => C5_SizeMismatchRaises

\* The format follows the mime type on the happy path, and on the unhappy
\* path when a mime type is given.
FormatFollowsGivenMime ==
    Encoded /\ last.outcome = "returned" /\ (last.path = "happy" \/ Truthy(last.mime)) =>
        last.bytes.file_format = ExpectedFormat(last.mime)

\* from_blender_image of an image with pixel data is encoded on the happy path.
FromImageWithChannelsFastPath ==
    built_from \in Images /\ images[built_from].channels > 0 => C7_FromImageFastPath

\* file_format, filepath_raw and colorspace are as before a re-save.
ResaveRestoresFormatAndPath ==
    Encoded /\ last.branch = "resave" =>
        \A i \in Images :
            /\ images[i].file_format = last.pre[i].file_format
            /\ images[i].filepath_raw = last.pre[i].filepath_raw
            /\ images[i].colorspace = last.pre[i].colorspace

\* A missing file sends the call on to the re-save.
MissingFallsThrough ==
    (\A p \in DOMAIN disk : disk[p] # "unreadable") => C9_UnreadableFallsThrough

====
